---- MODULE Spec2Model ----
(***************************************************************************)
(* A model of the Moonside lamp BLE client: the command encoders of        *)
(* color.py, theme.py and ble_lamp.py as operators, the connection         *)
(* lifecycle of MoonsideLamp (ble_lamp.py) as a state machine whose steps  *)
(* are the await points of the coroutines, and the animation loop of       *)
(* main.py on top of it.                                                   *)
(***************************************************************************)
EXTENDS Integers, Sequences, FiniteSets, TLC

(***************************************************************************)
(* Bounds of the model.                                                    *)
(***************************************************************************)
\* max_reconnect_attempts is drawn from 0..MaxAttempts
MaxAttempts == 2
\* number of BleakClient objects (transport sessions) one run may create
MaxSessions == 3
\* longest color list handed to a ThemeConfig in the encoder specification
MaxColors == 7
\* brightness inputs of the encoder specification are -BrightSlack..120+BrightSlack
BrightSlack == 12
\* max_reconnect_attempts is drawn from 0..AnimAttempts under animate_theme
AnimAttempts == 1

(***************************************************************************)
(* Optional values (Optional[int], Optional[BleakClient]).  An optional    *)
(* int is a sequence of length 0 (None) or 1; an optional client is 0      *)
(* (None) or the id of the BleakClient object.                             *)
(***************************************************************************)
None == <<>>
Some(v) == <<v>>

(***************************************************************************)
(* Python string formatting of integers.                                   *)
(***************************************************************************)
\* one decimal digit
Digit(d) ==
  CASE d = 0 -> "0" [] d = 1 -> "1" [] d = 2 -> "2" [] d = 3 -> "3"
    [] d = 4 -> "4" [] d = 5 -> "5" [] d = 6 -> "6" [] d = 7 -> "7"
    [] d = 8 -> "8" [] d = 9 -> "9"

RECURSIVE NatStr(_)
\* decimal digits of a natural number, no padding
NatStr(n) == IF n < 10 THEN Digit(n) ELSE NatStr(n \div 10) \o Digit(n % 10)

\* str(n) and f"{n}" of a Python int
IntStr(n) == IF n < 0 THEN "-" \o NatStr(-n) ELSE NatStr(n)

RECURSIVE ZeroFill(_, _)
\* left-pad a digit string with zeros up to the given width
ZeroFill(s, width) == IF Len(s) >= width THEN s ELSE ZeroFill("0" \o s, width)

\* f"{n:03d}": sign first, then zeros up to a total width of 3
Format03d(n) ==
  IF n < 0 THEN "-" \o ZeroFill(NatStr(-n), 2) ELSE ZeroFill(NatStr(n), 3)

(***************************************************************************)
(* color.py                                                                *)
(***************************************************************************)
RGBColor(r, g, b) == [r |-> r, g |-> g, b |-> b]

\* to_commastr without the comma after the blue channel
to_commastr_unterminated(c) == IntStr(c.r) \o "," \o IntStr(c.g) \o "," \o IntStr(c.b)

\* RGBColor.to_commastr: "R,G,B,"
to_commastr(c) == IntStr(c.r) \o "," \o IntStr(c.g) \o "," \o IntStr(c.b) \o ","

(***************************************************************************)
(* theme.py                                                                *)
(***************************************************************************)
ThemeName ==
  { "THEME1", "THEME2", "THEME4", "THEME5", "GRADIENT1", "PULSING1",
    "TWINKLE1", "WAVE1", "BEAT2", "COLORDROP1", "GRADIENT2", "LAVA1",
    "BEAT1", "BEAT3", "FIRE2", "PALETTE2", "THEME3" }

Meta(n, h) == [num_colors |-> n, has_numeric |-> h]

\* the dict THEME_METADATA; a name without an entry is not in its domain
THEME_METADATA ==
  [ t \in { "PALETTE2", "FIRE2", "THEME1", "THEME2", "THEME3", "THEME4",
            "THEME5", "WAVE1", "BEAT1", "BEAT2", "BEAT3", "GRADIENT1",
            "GRADIENT2", "TWINKLE1", "COLORDROP1", "LAVA1", "PULSING1" } |->
      CASE t \in {"PALETTE2", "THEME3"} -> Meta(6, FALSE)
        [] t = "FIRE2" -> Meta(4, FALSE)
        [] t \in {"BEAT1", "BEAT3", "GRADIENT2"} -> Meta(3, FALSE)
        [] OTHER -> Meta(2, FALSE) ]

ThemeConfig(name, numeric_param, colors) ==
  [name |-> name, numeric_param |-> numeric_param, colors |-> colors]

\* validate with `<` for `!=` in the color count check
validate_accepts_more(cfg) ==
  LET meta == THEME_METADATA[cfg.name]
  IN  IF Len(cfg.colors) < meta.num_colors THEN "ShapeMismatch"
      ELSE IF meta.has_numeric /\ cfg.numeric_param = None THEN "MissingParameter"
      ELSE IF ~meta.has_numeric /\ cfg.numeric_param # None THEN "UnexpectedParameter"
      ELSE "none"

\* ThemeConfig.validate: the exception it raises, "none" when it returns
validate(cfg) ==
  IF cfg.name \notin DOMAIN THEME_METADATA THEN "KeyError"
  ELSE LET meta == THEME_METADATA[cfg.name]
           required_colors == meta.num_colors
           has_numeric == meta.has_numeric
       IN  IF Len(cfg.colors) # required_colors THEN "ShapeMismatch"
           ELSE IF has_numeric /\ cfg.numeric_param = None THEN "MissingParameter"
           ELSE IF ~has_numeric /\ cfg.numeric_param # None THEN "UnexpectedParameter"
           ELSE "none"

RECURSIVE JoinColors(_)
\* "".join of the to_commastr() of each color, in list order
JoinColors(colors) ==
  IF colors = <<>> THEN ""
  ELSE to_commastr(Head(colors)) \o JoinColors(Tail(colors))

\* str.endswith(",")
EndsWithComma(s) == Len(s) >= 1 /\ SubSeq(s, Len(s), Len(s)) = ","

\* ThemeConfig.to_command_string: [err, cmd]; cmd is "" when it raises
to_command_string(cfg) ==
  LET e == validate(cfg) IN
  IF e # "none" THEN [err |-> e, cmd |-> ""]
  ELSE LET cmd_prefix == "THEME." \o cfg.name \o "."
           numeric == IF cfg.numeric_param # None
                      THEN IntStr(cfg.numeric_param[1]) ELSE ""
           joined == numeric \o JoinColors(cfg.colors)
           param_str == IF ~EndsWithComma(joined) THEN joined \o "," ELSE joined
       IN  [err |-> "none", cmd |-> cmd_prefix \o param_str]

(***************************************************************************)
(* ble_lamp.py: the command strings of the control operations.  Each       *)
(* operator gives [err, cmd]: the exception raised before _send_command    *)
(* is reached ("none" if none) and the command handed to _send_command.    *)
(***************************************************************************)
Raise(e) == [err |-> e, cmd |-> ""]
Command(c) == [err |-> "none", cmd |-> c]

turn_on_cmd == Command("LEDON")

turn_off_cmd == Command("LEDOFF")

\* set_brightness with the range of a color channel for that of a brightness
set_brightness_cmd_channel_range(brightness) ==
  IF ~(0 <= brightness /\ brightness <= 255) THEN Raise("OutOfRange")
  ELSE Command("BRIGH" \o Format03d(brightness))

\* set_brightness formatting with f"{brightness}" for f"{brightness:03d}"
set_brightness_cmd_unpadded(brightness) ==
  IF ~(0 <= brightness /\ brightness <= 120) THEN Raise("OutOfRange")
  ELSE Command("BRIGH" \o IntStr(brightness))

set_brightness_cmd(brightness) ==
  IF ~(0 <= brightness /\ brightness <= 120) THEN Raise("OutOfRange")
  ELSE Command("BRIGH" \o Format03d(brightness))

set_color_cmd(color, brightness) ==
  LET cmd == "COLOR" \o Format03d(color.r) \o Format03d(color.g) \o Format03d(color.b)
  IN  Command(IF brightness # None THEN cmd \o " " \o IntStr(brightness[1]) ELSE cmd)

set_theme_cmd(theme_config) == to_command_string(theme_config)

set_pixel_cmd(pixel_id, brightness, color) ==
  IF ~(0 <= brightness /\ brightness <= 120) THEN Raise("OutOfRange")
  ELSE LET color_str == Format03d(color.r) \o Format03d(color.g) \o Format03d(color.b)
       IN  Command("PIXEL," \o IntStr(pixel_id) \o "," \o IntStr(brightness)
                   \o " COLOR" \o color_str)

apply_pixel_mode_cmd == Command("MODEPIXEL")

(***************************************************************************)
(* State.                                                                  *)
(***************************************************************************)
VARIABLES
  max_reconnect_attempts, \* MoonsideLamp.max_reconnect_attempts
  client,            \* MoonsideLamp.client: 0 (None) or the id of a BleakClient
  rx_characteristic, \* MoonsideLamp.rx_characteristic: 0 (None) or the id of
                     \* the BleakClient on whose session the handle was resolved
  is_connected,      \* transport: the ids of the BleakClients whose link is up
  made,              \* transport: number of BleakClient objects created so far
  pc,                \* position of the single thread of control
  session,           \* the `async with MoonsideLamp(...)` statement
  frame,             \* locals of the control operation in flight
  obs,               \* what the call in flight has done so far
  res,               \* what the caller has been handed
  anim,              \* locals of animate_theme
  now,               \* the event loop's clock, read by animate_theme only
  enc,               \* the encoder specification: input, output, position
  conc               \* two tasks calling one lamp: their positions and locals

vars ==
  << max_reconnect_attempts, client, rx_characteristic, is_connected, made,
     pc, session, frame, obs, res, anim, now, enc, conc >>

lamp_vars == << client, rx_characteristic >>

transport_vars == << is_connected, made >>

\* an idle frame: no control operation in flight
NoFrame == [op |-> "none", cmd |-> "", attempts |-> 0, via |-> "none", err |-> "none"]

\* what a call has done, recorded from the moment it starts
Snapshot(invalid) ==
  [ client0 |-> client, rx0 |-> rx_characteristic,
    alive0 |-> (client # 0 /\ client \in is_connected), made0 |-> made,
    scans |-> 0, connects |-> 0, writes |-> 0, reconnected |-> FALSE,
    wclient |-> 0, whandle |-> 0, wcmd |-> "", invalid |-> invalid ]

\* no call in flight
NoObs ==
  [ client0 |-> 0, rx0 |-> 0, alive0 |-> FALSE, made0 |-> 0,
    scans |-> 0, connects |-> 0, writes |-> 0, reconnected |-> FALSE,
    wclient |-> 0, whandle |-> 0, wcmd |-> "", invalid |-> FALSE ]

\* no such moment yet: before the first theme or brightness command
NoTime == -1

\* the time from the call before to the call made now, if there was one
Gap(before, t) == IF before = NoTime THEN NoTime ELSE t - before

NoAnim ==
  [ active |-> FALSE, stage |-> "none", duration |-> 0,
    start_colors |-> <<>>, end_colors |-> <<>>,
    start_brightness |-> 0, end_brightness |-> 0,
    color_curve |-> "linear", brightness_curve |-> "linear",
    start_time |-> 0, elapsed |-> 0, current_brightness |-> 0,
    command_start_time |-> 0,
    themes |-> 0, brights |-> 0, last_theme |-> "", last_bright |-> "",
    theme_at |-> NoTime, theme_gap |-> NoTime,
    bright_at |-> NoTime, bright_gap |-> NoTime,
    result |-> "none" ]

NoEnc == [pc |-> "off", kind |-> "none", cfg |-> ThemeConfig("THEME1", None, <<>>),
          brightness |-> 0, out |-> Raise("none")]

\* the tasks that call the same lamp without waiting for one another
Tasks == {1, 2}

\* no such tasks: the lamp has one caller
NoConc ==
  [ pc |-> [t \in Tasks |-> "off"], attempts |-> [t \in Tasks |-> 0],
    opening |-> [t \in Tasks |-> 0], called |-> [t \in Tasks |-> FALSE],
    overlapped |-> FALSE ]

\* a MoonsideLamp as __init__ leaves it, and a caller that has done nothing
InitLamp ==
  /\ max_reconnect_attempts \in 0..MaxAttempts
  /\ client = 0
  /\ rx_characteristic = 0
  /\ is_connected = {}
  /\ made = 0
  /\ pc = "idle"
  /\ session = "none"
  /\ frame = NoFrame
  /\ obs = NoObs
  /\ res = [sess |-> "none", body_err |-> "none", disconnects |-> 0]
  /\ anim = NoAnim
  /\ now = 0

Init == InitLamp /\ enc = NoEnc /\ conc = NoConc

(***************************************************************************)
(* Inputs of the control operations, and the time a transport call takes   *)
(* while animate_theme is watching the clock.                              *)
(***************************************************************************)
ColorInputs == { RGBColor(255, 0, 0), RGBColor(0, 0, 255) }

BrightnessInputs == { -1, 120, 121 }

ThemeInputs ==
  { ThemeConfig("TWINKLE1", None, << RGBColor(255, 0, 0), RGBColor(0, 0, 255) >>),
    ThemeConfig("TWINKLE1", None, << RGBColor(255, 0, 0) >>),
    ThemeConfig("GRADIENT2", Some(20),
                << RGBColor(255, 0, 0), RGBColor(0, 0, 255), RGBColor(0, 0, 255) >>) }

PixelInputs == { 3 }

\* the seconds a command may take from its call to its return
Delays == { 0, 20, 160 }

\* the time of a command is charged when its write ends; the clock moves
\* only while animate_theme runs: nothing else reads it
Elapse(d) == now' = IF anim.active THEN now + d ELSE now

(***************************************************************************)
(* The caller: control operations of MoonsideLamp.  Each evaluates its     *)
(* checks and its command string, then enters _send_command or raises.     *)
(***************************************************************************)
CallerReady == pc = "idle" /\ ~anim.active /\ session \in {"none", "body"}

\* enter a control operation whose checks and encoding gave r
StartCall(name, r, invalid) ==
  /\ frame' = [op |-> name, cmd |-> r.cmd, attempts |-> 0, via |-> "none",
               err |-> r.err]
  /\ obs' = Snapshot(invalid)
  /\ pc' = IF r.err = "none" THEN "ensure" ELSE "raise"

\* inputs that the operations are documented to reject
BadBrightness(b) == b < 0 \/ b > 120

BadTheme(cfg) ==
  \/ Len(cfg.colors) # THEME_METADATA[cfg.name].num_colors
  \/ (cfg.numeric_param # None) # THEME_METADATA[cfg.name].has_numeric

turn_on ==
  /\ CallerReady
  /\ StartCall("turn_on", turn_on_cmd, FALSE)
  /\ UNCHANGED << max_reconnect_attempts, lamp_vars, transport_vars, session,
                  res, anim, now, enc, conc >>

turn_off ==
  /\ CallerReady
  /\ StartCall("turn_off", turn_off_cmd, FALSE)
  /\ UNCHANGED << max_reconnect_attempts, lamp_vars, transport_vars, session,
                  res, anim, now, enc, conc >>

set_brightness ==
  /\ CallerReady
  /\ \E brightness \in BrightnessInputs :
       StartCall("set_brightness", set_brightness_cmd(brightness),
                 BadBrightness(brightness))
  /\ UNCHANGED << max_reconnect_attempts, lamp_vars, transport_vars, session,
                  res, anim, now, enc, conc >>

set_color ==
  /\ CallerReady
  /\ \E color \in ColorInputs, brightness \in {None, Some(60)} :
       /\ (brightness = None) = (color.r = 0)
       /\ StartCall("set_color", set_color_cmd(color, brightness), FALSE)
  /\ UNCHANGED << max_reconnect_attempts, lamp_vars, transport_vars, session,
                  res, anim, now, enc, conc >>

set_theme ==
  /\ CallerReady
  /\ \E theme_config \in ThemeInputs :
       StartCall("set_theme", set_theme_cmd(theme_config), BadTheme(theme_config))
  /\ UNCHANGED << max_reconnect_attempts, lamp_vars, transport_vars, session,
                  res, anim, now, enc, conc >>

set_pixel ==
  /\ CallerReady
  /\ \E pixel_id \in PixelInputs, brightness \in {50, 121},
        color \in {RGBColor(255, 0, 0)} :
       StartCall("set_pixel", set_pixel_cmd(pixel_id, brightness, color),
                 BadBrightness(brightness))
  /\ UNCHANGED << max_reconnect_attempts, lamp_vars, transport_vars, session,
                  res, anim, now, enc, conc >>

apply_pixel_mode ==
  /\ CallerReady
  /\ StartCall("apply_pixel_mode", apply_pixel_mode_cmd, FALSE)
  /\ UNCHANGED << max_reconnect_attempts, lamp_vars, transport_vars, session,
                  res, anim, now, enc, conc >>

(***************************************************************************)
(* _ensure_connected                                                       *)
(***************************************************************************)
\* the test of the link with `self.client` alone
ClientHeld == client # 0

\* `self.client and self.client.is_connected`
ClientConnected == client # 0 /\ client \in is_connected

\* _ensure_connected without its early return
ensure_connected_always_reconnects ==
  /\ pc = "ensure"
  /\ pc' = "loop"
  /\ frame' = [frame EXCEPT !.attempts = 0]
  /\ UNCHANGED << max_reconnect_attempts, lamp_vars, transport_vars, session,
                  obs, res, anim, now, enc, conc >>

\* the early return of _ensure_connected, or the start of its retry loop
ensure_connected ==
  /\ pc = "ensure"
  /\ pc' = IF ClientConnected THEN "send" ELSE "loop"
  /\ frame' = [frame EXCEPT !.attempts = 0]
  /\ UNCHANGED << max_reconnect_attempts, lamp_vars, transport_vars, session,
                  obs, res, anim, now, enc, conc >>

\* the loop test with `<=` for `<`
MayRetryOnceMore(attempts, max) == attempts <= max

\* `while attempts < self.max_reconnect_attempts`
MayRetry(attempts, max) == attempts < max

\* the loop body calls _connect()
ensure_retry ==
  /\ pc = "loop"
  /\ MayRetry(frame.attempts, max_reconnect_attempts)
  /\ frame' = [frame EXCEPT !.via = "ensure"]
  /\ obs' = [obs EXCEPT !.connects = @ + 1]
  /\ pc' = "scan"
  /\ UNCHANGED << max_reconnect_attempts, lamp_vars, transport_vars, session,
                  res, anim, now, enc, conc >>

\* the loop is left without a connection
ensure_exhausted ==
  /\ pc = "loop"
  /\ ~MayRetry(frame.attempts, max_reconnect_attempts)
  /\ frame' = [frame EXCEPT !.err = "ReconnectExhausted"]
  /\ pc' = "raise"
  /\ UNCHANGED << max_reconnect_attempts, lamp_vars, transport_vars, session,
                  obs, res, anim, now, enc, conc >>

(***************************************************************************)
(* _connect                                                                *)
(***************************************************************************)
\* _connect raises e: the except clause of _ensure_connected counts the
\* attempt; __aenter__ lets the exception through
ConnectRaises(e) ==
  IF frame.via = "ensure"
  THEN /\ frame' = [frame EXCEPT !.attempts = @ + 1]
       /\ pc' = "loop"
  ELSE /\ frame' = [frame EXCEPT !.err = e]
       /\ pc' = "raise"

\* _connect returns: to _send_command through _ensure_connected, or to the
\* body of the managed session through __aenter__
ConnectReturns ==
  IF frame.via = "ensure"
  THEN /\ pc' = "send"
       /\ obs' = [obs EXCEPT !.reconnected = TRUE]
       /\ UNCHANGED << session, frame >>
  ELSE /\ pc' = "idle"
       /\ session' = "body"
       /\ frame' = NoFrame
       /\ obs' = NoObs

\* BleakScanner.discover() and the search for the device name
connect_scan_found ==
  /\ pc = "scan"
  /\ made < MaxSessions
  /\ made' = made + 1
  /\ client' = made + 1
  /\ pc' = "connect"
  /\ obs' = [obs EXCEPT !.scans = @ + 1]
  /\ UNCHANGED << max_reconnect_attempts, rx_characteristic, is_connected,
                  session, frame, res, anim, now, enc, conc >>

connect_scan_not_found ==
  /\ pc = "scan"
  /\ ConnectRaises("DeviceNotFound")
  /\ obs' = [obs EXCEPT !.scans = @ + 1]
  /\ UNCHANGED << max_reconnect_attempts, lamp_vars, transport_vars, session,
                  res, anim, now, enc, conc >>

\* self.client.connect() raises
connect_open_fails ==
  /\ pc = "connect"
  /\ ConnectRaises("TransportError")
  /\ UNCHANGED << max_reconnect_attempts, lamp_vars, transport_vars, session,
                  obs, res, anim, now, enc, conc >>

\* the handle _connect holds after looking through the characteristics of
\* the session just opened
ResolveRx(held, opened, listed) == IF listed THEN opened ELSE held

\* self.client.connect() returns; the characteristics are searched
connect_open ==
  /\ pc = "connect"
  /\ \E listed \in BOOLEAN :
       /\ is_connected' = is_connected \cup {client}
       /\ rx_characteristic' = ResolveRx(rx_characteristic, client, listed)
       /\ IF rx_characteristic' = 0
          THEN /\ ConnectRaises("CharacteristicNotFound")
               /\ UNCHANGED << session, obs >>
          ELSE ConnectReturns
  /\ UNCHANGED << max_reconnect_attempts, client, made, res, anim, now, enc, conc >>

(***************************************************************************)
(* _send_command                                                           *)
(***************************************************************************)
\* the commands animate_theme has sent so far
LogWrite(a, op, cmd) ==
  IF ~a.active THEN a
  ELSE IF op = "set_theme"
       THEN [a EXCEPT !.themes = @ + 1, !.last_theme = cmd]
       ELSE [a EXCEPT !.brights = @ + 1, !.last_bright = cmd]

\* after _ensure_connected: the second check, then write_gatt_char is called
send_command ==
  /\ pc = "send"
  /\ IF ~ClientConnected
     THEN /\ frame' = [frame EXCEPT !.err = "NotConnected"]
          /\ pc' = "raise"
          /\ UNCHANGED << obs, anim >>
     ELSE /\ obs' = [obs EXCEPT !.writes = @ + 1, !.wclient = client,
                                !.whandle = rx_characteristic,
                                !.wcmd = frame.cmd]
          /\ anim' = LogWrite(anim, frame.op, frame.cmd)
          /\ pc' = "write"
          /\ frame' = frame
  /\ UNCHANGED << max_reconnect_attempts, lamp_vars, transport_vars, session,
                  res, now, enc, conc >>

\* the confirmed write is acknowledged
write_acknowledged ==
  /\ pc = "write"
  /\ client \in is_connected
  /\ obs.whandle # 0
  /\ pc' = "return"
  /\ \E d \in Delays : Elapse(d)
  /\ UNCHANGED << max_reconnect_attempts, lamp_vars, transport_vars, session,
                  frame, obs, res, anim, enc, conc >>

\* a failed write sent round again through _ensure_connected
write_fails_retries ==
  /\ pc = "write"
  /\ pc' = "ensure"
  /\ \E d \in Delays : Elapse(d)
  /\ UNCHANGED << max_reconnect_attempts, lamp_vars, transport_vars, session,
                  frame, obs, res, anim, enc, conc >>

\* write_gatt_char raises
write_fails ==
  /\ pc = "write"
  /\ frame' = [frame EXCEPT !.err = "WriteError"]
  /\ pc' = "raise"
  /\ \E d \in Delays : Elapse(d)
  /\ UNCHANGED << max_reconnect_attempts, lamp_vars, transport_vars, session,
                  obs, res, anim, enc, conc >>

(***************************************************************************)
(* How a control operation ends.                                           *)
(***************************************************************************)
\* the call is over: its locals and the record of what it did go; the clock,
\* which only animate_theme reads, is measured from the call of animate_theme
Forget == frame' = NoFrame /\ obs' = NoObs /\ anim' = NoAnim /\ now' = 0

\* the operation returns to the caller
op_return ==
  /\ pc = "return"
  /\ ~anim.active
  /\ pc' = "idle"
  /\ Forget
  /\ UNCHANGED << max_reconnect_attempts, lamp_vars, transport_vars, session,
                  res, enc, conc >>

\* the exception reaches a caller that holds no managed session;
\* animate_theme has no try, so an exception of a command ends it too
raise_to_caller ==
  /\ pc = "raise"
  /\ session = "none"
  /\ pc' = "idle"
  /\ Forget
  /\ UNCHANGED << max_reconnect_attempts, lamp_vars, transport_vars, session,
                  res, enc, conc >>

\* the exception leaves the body of the managed session: __aexit__ runs
raise_in_body ==
  /\ pc = "raise"
  /\ session = "body"
  /\ res' = [res EXCEPT !.body_err = frame.err]
  /\ session' = "exiting"
  /\ pc' = "aexit"
  /\ Forget
  /\ UNCHANGED << max_reconnect_attempts, lamp_vars, transport_vars, enc, conc >>

(***************************************************************************)
(* The managed session: __aenter__, the body, __aexit__, _disconnect.      *)
(***************************************************************************)
\* __aenter__ calls _connect()
aenter ==
  /\ pc = "idle"
  /\ ~anim.active
  /\ session = "none"
  /\ session' = "entering"
  /\ frame' = [NoFrame EXCEPT !.op = "aenter", !.via = "aenter"]
  /\ obs' = [Snapshot(FALSE) EXCEPT !.connects = 1]
  /\ res' = [sess |-> "running", body_err |-> "none", disconnects |-> 0]
  /\ pc' = "scan"
  /\ UNCHANGED << max_reconnect_attempts, lamp_vars, transport_vars, anim, now,
                  enc, conc >>

\* _connect raised inside __aenter__: the body and __aexit__ never run
aenter_raises ==
  /\ pc = "raise"
  /\ session = "entering"
  /\ res' = [res EXCEPT !.sess = frame.err]
  /\ session' = "none"
  /\ pc' = "idle"
  /\ Forget
  /\ UNCHANGED << max_reconnect_attempts, lamp_vars, transport_vars, enc, conc >>

\* the body runs to its end
body_done ==
  /\ pc = "idle"
  /\ ~anim.active
  /\ session = "body"
  /\ session' = "exiting"
  /\ pc' = "aexit"
  /\ UNCHANGED << max_reconnect_attempts, lamp_vars, transport_vars, frame,
                  obs, res, anim, now, enc, conc >>

\* __aexit__ returns None: the `async with` statement ends with the
\* exception of the body, if it raised one
SessionEnds ==
  /\ session' = "none"
  /\ pc' = "idle"

\* an __aexit__ that does not call _disconnect()
aexit_without_disconnect ==
  /\ pc = "aexit"
  /\ res' = [res EXCEPT !.sess = IF res.body_err = "none" THEN "ok"
                                 ELSE res.body_err]
  /\ SessionEnds
  /\ UNCHANGED << max_reconnect_attempts, lamp_vars, transport_vars, frame,
                  obs, anim, now, enc, conc >>

\* __aexit__ calls _disconnect(): the test of the link, then either the
\* await of client.disconnect() or `self.client = None` at once
aexit ==
  /\ pc = "aexit"
  /\ IF ClientConnected
     THEN /\ pc' = "close"
          /\ res' = [res EXCEPT !.disconnects = @ + 1]
          /\ UNCHANGED << client, session >>
     ELSE /\ client' = 0
          /\ res' = [res EXCEPT !.disconnects = @ + 1,
                                !.sess = IF res.body_err = "none" THEN "ok"
                                         ELSE res.body_err]
          /\ SessionEnds
  /\ UNCHANGED << max_reconnect_attempts, rx_characteristic, transport_vars,
                  frame, obs, anim, now, enc, conc >>

\* client.disconnect() returns, then `self.client = None`
close_done ==
  /\ pc = "close"
  /\ is_connected' = is_connected \ {client}
  /\ client' = 0
  /\ res' = [res EXCEPT !.sess = IF res.body_err = "none" THEN "ok"
                                 ELSE res.body_err]
  /\ SessionEnds
  /\ UNCHANGED << max_reconnect_attempts, rx_characteristic, made,
                  frame, obs, anim, now, enc, conc >>

\* client.disconnect() raises: nothing catches it, `self.client = None` is
\* not reached, and the exception leaves __aexit__
close_fails ==
  /\ pc = "close"
  /\ \E closed \in BOOLEAN :
       is_connected' = IF closed THEN is_connected \ {client} ELSE is_connected
  /\ res' = [res EXCEPT !.sess = "CloseError"]
  /\ SessionEnds
  /\ UNCHANGED << max_reconnect_attempts, lamp_vars, made, frame,
                  obs, anim, now, enc, conc >>

(***************************************************************************)
(* The transport loses a link.  The coroutines see it at their next look   *)
(* at client.is_connected, so it happens while they are suspended.         *)
(***************************************************************************)
AwaitPoints ==
  { "idle", "scan", "connect", "write", "close", "sleep_brightness", "sleep_color" }

link_loss ==
  /\ pc \in AwaitPoints
  /\ \E c \in is_connected : is_connected' = is_connected \ {c}
  /\ UNCHANGED << max_reconnect_attempts, lamp_vars, made, pc,
                  session, frame, obs, res, anim, now, enc, conc >>

(***************************************************************************)
(* main.py: animate_theme.  Times are whole seconds; progress is the       *)
(* fraction elapsed / duration, kept as its numerator capped at duration.  *)
(***************************************************************************)
color_min_wait == 150

brightness_min_wait == 10

DurationInputs == { 0, 160 }

TwoStart == << RGBColor(0, 0, 255), RGBColor(0, 255, 0) >>

TwoEnd == << RGBColor(255, 165, 0), RGBColor(128, 0, 128) >>

AnimInput(duration, starts, ends, b0, b1, color_curve, brightness_curve) ==
  [ duration |-> duration, start_colors |-> starts, end_colors |-> ends,
    start_brightness |-> b0, end_brightness |-> b1,
    color_curve |-> color_curve, brightness_curve |-> brightness_curve ]

\* the arguments of animate_theme: two colors to two colors at every duration
\* with the curves of main() and with linear ones; lists of unequal length;
\* three colors, which GRADIENT1 refuses; an end brightness out of range
AnimInputs ==
  { AnimInput(d, TwoStart, TwoEnd, 20, 120, c[1], c[2]) :
      d \in DurationInputs,
      c \in { << "linear", "linear" >>, << "easeInQuad", "easeOutQuad" >> } }
  \cup
  { AnimInput(d, << RGBColor(0, 0, 255) >>, TwoEnd, 20, 120, "linear", "linear") :
      d \in {0, 160} }
  \cup
  { AnimInput(160, TwoStart \o << RGBColor(0, 0, 0) >>,
              TwoEnd \o << RGBColor(9, 9, 9) >>, 20, 120, "linear", "linear"),
    AnimInput(160, TwoStart, TwoEnd, 0, 130, "linear", "linear") }

Min(a, b) == IF a < b THEN a ELSE b

Max(a, b) == IF a > b THEN a ELSE b

(***************************************************************************)
(* The arithmetic of animate_theme is Python's float arithmetic: IEEE 754  *)
(* binary64, every operation rounded to nearest, ties to even.  A natural  *)
(* number of any size is a sequence of limbs, least significant first, in  *)
(* base LimbBase; a float is a sign, such a number m and an exponent e,    *)
(* standing for m * 2^e with m below 2^Precision.                          *)
(***************************************************************************)
LimbBits == 15

LimbBase == 32768

Precision == 53

Limb(a, i) == IF i <= Len(a) THEN a[i] ELSE 0

RECURSIVE Strip(_)
\* without leading zero limbs
Strip(a) ==
  IF a = <<>> THEN a
  ELSE IF a[Len(a)] = 0 THEN Strip(SubSeq(a, 1, Len(a) - 1)) ELSE a

RECURSIVE BigFromNat(_)
BigFromNat(n) ==
  IF n = 0 THEN <<>> ELSE << n % LimbBase >> \o BigFromNat(n \div LimbBase)

RECURSIVE BigToNat(_)
BigToNat(a) == IF a = <<>> THEN 0 ELSE a[1] + LimbBase * BigToNat(Tail(a))

RECURSIVE AddFrom(_, _, _, _)
AddFrom(a, b, i, carry) ==
  IF i > Len(a) /\ i > Len(b)
  THEN (IF carry = 0 THEN <<>> ELSE << carry >>)
  ELSE LET s == Limb(a, i) + Limb(b, i) + carry
       IN  << s % LimbBase >> \o AddFrom(a, b, i + 1, s \div LimbBase)

BigAdd(a, b) == AddFrom(a, b, 1, 0)

RECURSIVE SubFrom(_, _, _, _)
SubFrom(a, b, i, borrow) ==
  IF i > Len(a) THEN <<>>
  ELSE LET s == a[i] - Limb(b, i) - borrow
       IN  IF s < 0 THEN << s + LimbBase >> \o SubFrom(a, b, i + 1, 1)
           ELSE << s >> \o SubFrom(a, b, i + 1, 0)

\* a - b for a >= b
BigSub(a, b) == Strip(SubFrom(a, b, 1, 0))

RECURSIVE MulSmallFrom(_, _, _, _)
MulSmallFrom(a, k, i, carry) ==
  IF i > Len(a)
  THEN (IF carry = 0 THEN <<>> ELSE << carry >>)
  ELSE LET s == a[i] * k + carry
       IN  << s % LimbBase >> \o MulSmallFrom(a, k, i + 1, s \div LimbBase)

\* a * k for k < LimbBase
BigMulSmall(a, k) == MulSmallFrom(a, k, 1, 0)

RECURSIVE MulFrom(_, _, _)
MulFrom(a, b, j) ==
  IF j > Len(b) THEN <<>>
  ELSE BigAdd(BigMulSmall(a, b[j]), << 0 >> \o MulFrom(a, b, j + 1))

BigMul(a, b) == Strip(MulFrom(a, b, 1))

RECURSIVE Pow2(_)
Pow2(n) == IF n = 0 THEN 1 ELSE 2 * Pow2(n - 1)

\* a * 2^n
BigShl(a, n) ==
  IF Strip(a) = <<>> THEN <<>>
  ELSE [i \in 1..(n \div LimbBits) |-> 0] \o BigMulSmall(a, Pow2(n % LimbBits))

RECURSIVE DivSmallFrom(_, _, _, _)
DivSmallFrom(a, d, i, r) ==
  IF i = 0 THEN [q |-> <<>>, r |-> r]
  ELSE LET n == r * LimbBase + a[i]
           rest == DivSmallFrom(a, d, i - 1, n % d)
       IN  [q |-> rest.q \o << n \div d >>, r |-> rest.r]

\* quotient and remainder of a by d, 0 < d < 2^16
BigDivSmall(a, d) ==
  LET x == DivSmallFrom(a, d, Len(a), 0) IN [q |-> Strip(x.q), r |-> x.r]

\* a \div 2^n
BigShr(a, n) ==
  LET k == n \div LimbBits
  IN  IF k >= Len(a) THEN <<>>
      ELSE BigDivSmall(SubSeq(a, k + 1, Len(a)), Pow2(n % LimbBits)).q

RECURSIVE SmallBits(_)
\* the number of binary digits of n
SmallBits(n) == IF n = 0 THEN 0 ELSE 1 + SmallBits(n \div 2)

BitLength(a) ==
  LET s == Strip(a)
  IN  IF s = <<>> THEN 0 ELSE LimbBits * (Len(s) - 1) + SmallBits(s[Len(s)])

RECURSIVE LessFrom(_, _, _)
LessFrom(x, y, i) ==
  IF i = 0 THEN FALSE
  ELSE IF x[i] # y[i] THEN x[i] < y[i] ELSE LessFrom(x, y, i - 1)

BigLess(a, b) ==
  LET x == Strip(a)
      y == Strip(b)
  IN  IF Len(x) # Len(y) THEN Len(x) < Len(y) ELSE LessFrom(x, y, Len(x))

RECURSIVE Float(_, _, _)
\* the float (-1)^neg * m * 2^e, written without low zero limbs
Float(neg, m, e) ==
  IF m # <<>> /\ m[1] = 0 THEN Float(neg, Tail(m), e + LimbBits)
  ELSE [neg |-> neg, m |-> m, e |-> e]

\* the float nearest to (-1)^neg * m * 2^e, ties to even
RoundToDouble(neg, m, e) ==
  LET n == BitLength(m) IN
  IF n <= Precision THEN Float(neg, Strip(m), e)
  ELSE LET s == n - Precision
           q == BigShr(m, s)
           rem == BigSub(m, BigShl(q, s))
           half == BigShl(<< 1 >>, s - 1)
           up == BigLess(half, rem) \/ (rem = half /\ q[1] % 2 = 1)
       IN  Float(neg, IF up THEN BigAdd(q, << 1 >>) ELSE q, e + s)

\* float(i) of an int
FloatOfInt(i) ==
  [neg |-> i < 0, m |-> BigFromNat(IF i < 0 THEN -i ELSE i), e |-> 0]

FloatNeg(x) == [x EXCEPT !.neg = ~x.neg]

FloatMul(x, y) == RoundToDouble(x.neg # y.neg, BigMul(x.m, y.m), x.e + y.e)

FloatAdd(x, y) ==
  LET e0 == IF x.e < y.e THEN x.e ELSE y.e
      a == BigShl(x.m, x.e - e0)
      b == BigShl(y.m, y.e - e0)
  IN  IF x.neg = y.neg THEN RoundToDouble(x.neg, BigAdd(a, b), e0)
      ELSE IF BigLess(a, b) THEN RoundToDouble(y.neg, BigSub(b, a), e0)
      ELSE RoundToDouble(x.neg, BigSub(a, b), e0)

\* a / b of two naturals, 0 < b < 2^16: the quotient to Precision + 2 bits
\* and more, with one more bit that tells whether anything was left over
FloatDiv(a, b) ==
  LET k == Precision + 1 + SmallBits(b)
      x == BigDivSmall(BigShl(BigFromNat(a), k), b)
      sticky == IF x.r = 0 THEN <<>> ELSE << 1 >>
  IN  RoundToDouble(FALSE, BigAdd(BigShl(x.q, 1), sticky), -(k + 1))

\* int(x): truncation toward zero
FloatToInt(x) ==
  LET magnitude == IF x.e >= 0 THEN BigToNat(BigShl(x.m, x.e))
                   ELSE BigToNat(BigShr(x.m, -x.e))
  IN  IF x.neg THEN -magnitude ELSE magnitude

\* progress = min(elapsed_time / duration, 1.0), elapsed_time >= 0
Progress(e, d) == IF e >= d THEN FloatOfInt(1) ELSE FloatDiv(e, d)

\* pytweening's linear(n) = n, easeInQuad(n) = n**2 and
\* easeOutQuad(n) = -n * (n - 2) at n = progress
Tween(curve, e, d) ==
  LET n == Progress(e, d) IN
  CASE curve = "linear" -> n
    [] curve = "easeInQuad" -> FloatMul(n, n)
    [] curve = "easeOutQuad" -> FloatMul(FloatNeg(n), FloatAdd(n, FloatOfInt(-2)))

\* int(t * (end - start) + start) for t = curve(progress)
Blend(t, start, end) ==
  FloatToInt(FloatAdd(FloatMul(t, FloatOfInt(end - start)), FloatOfInt(start)))

\* the interpolation without its offset: int(curve(progress) * (end - start))
Interpolate_without_start(curve, e, d, start, end) ==
  FloatToInt(FloatMul(Tween(curve, e, d), FloatOfInt(end - start)))

\* int(curve(progress) * (end - start) + start)
Interpolate(curve, e, d, start, end) == Blend(Tween(curve, e, d), start, end)

\* the list comprehension over zip(start_colors, end_colors)
InterpolateColors(curve, e, d, starts, ends) ==
  LET t == Tween(curve, e, d) IN
  [ i \in 1..Min(Len(starts), Len(ends)) |->
      RGBColor(Blend(t, starts[i].r, ends[i].r),
               Blend(t, starts[i].g, ends[i].g),
               Blend(t, starts[i].b, ends[i].b)) ]

\* the length check, then the start time is recorded
animate_theme ==
  /\ CallerReady
  /\ \E in \in AnimInputs :
       /\ now' = 0
       /\ IF Len(in.start_colors) # Len(in.end_colors)
          THEN /\ frame' = [NoFrame EXCEPT !.op = "animate_theme",
                                           !.err = "LengthMismatch"]
               /\ obs' = Snapshot(TRUE)
               /\ anim' = NoAnim
               /\ pc' = "raise"
          ELSE /\ frame' = [NoFrame EXCEPT !.op = "animate_theme"]
               /\ obs' = Snapshot(FALSE)
               /\ anim' = [NoAnim EXCEPT
                             !.active = TRUE, !.stage = "loop",
                             !.duration = in.duration,
                             !.start_colors = in.start_colors,
                             !.end_colors = in.end_colors,
                             !.start_brightness = in.start_brightness,
                             !.end_brightness = in.end_brightness,
                             !.color_curve = in.color_curve,
                             !.brightness_curve = in.brightness_curve,
                             !.start_time = now']
               /\ pc' = "anim_loop"
  /\ UNCHANGED << max_reconnect_attempts, lamp_vars, transport_vars, session,
                  res, enc, conc >>

\* the head of an iteration up to the call of lamp.set_theme
anim_iteration ==
  /\ pc = "anim_loop"
  /\ anim.duration # 0
  /\ LET elapsed_time == now - anim.start_time
         e == Min(elapsed_time, anim.duration)
         current_colors ==
           InterpolateColors(anim.color_curve, e, anim.duration,
                             anim.start_colors, anim.end_colors)
         current_brightness ==
           Interpolate(anim.brightness_curve, e, anim.duration,
                       anim.start_brightness, anim.end_brightness)
         theme_config == ThemeConfig("GRADIENT1", None, current_colors)
     IN  /\ anim' = [anim EXCEPT !.stage = "theme", !.elapsed = e,
                                 !.current_brightness = current_brightness,
                                 !.command_start_time = now,
                                 !.theme_at = now,
                                 !.theme_gap = Gap(anim.theme_at, now)]
         /\ StartCall("set_theme", set_theme_cmd(theme_config),
                      BadTheme(theme_config))
  /\ UNCHANGED << max_reconnect_attempts, lamp_vars, transport_vars, session,
                  res, now, enc, conc >>

\* elapsed_time / duration with duration = 0
anim_zero_division ==
  /\ pc = "anim_loop"
  /\ anim.duration = 0
  /\ frame' = [NoFrame EXCEPT !.op = "animate_theme", !.err = "ZeroDivisionError"]
  /\ pc' = "raise"
  /\ UNCHANGED << max_reconnect_attempts, lamp_vars, transport_vars, session,
                  obs, res, anim, now, enc, conc >>

\* lamp.set_brightness(current_brightness)
CallSetBrightness ==
  /\ StartCall("set_brightness", set_brightness_cmd(anim.current_brightness),
               BadBrightness(anim.current_brightness))
  /\ anim' = [anim EXCEPT !.stage = "brightness",
                           !.bright_at = now,
                           !.bright_gap = Gap(anim.bright_at, now)]

\* set_theme returned: the wait up to brightness_min_wait, if any
anim_after_theme ==
  /\ pc = "return"
  /\ anim.active
  /\ anim.stage = "theme"
  /\ LET command_elapsed_time == now - anim.command_start_time
         wait_time == Max(0, brightness_min_wait - command_elapsed_time)
     IN  IF wait_time > 0
         THEN /\ now' = now + wait_time
              /\ pc' = "sleep_brightness"
              /\ UNCHANGED << frame, obs, anim >>
         ELSE /\ CallSetBrightness
              /\ now' = now
  /\ UNCHANGED << max_reconnect_attempts, lamp_vars, transport_vars, session,
                  res, enc, conc >>

\* asyncio.sleep(wait_time) is over
anim_wake_brightness ==
  /\ pc = "sleep_brightness"
  /\ CallSetBrightness
  /\ UNCHANGED << max_reconnect_attempts, lamp_vars, transport_vars, session,
                  res, now, enc, conc >>

\* set_brightness returned with progress >= 1.0: break
anim_break ==
  /\ pc = "return"
  /\ anim.active
  /\ anim.stage = "brightness"
  /\ anim.elapsed >= anim.duration
  /\ anim' = [anim EXCEPT !.active = FALSE, !.stage = "done", !.result = "ok"]
  /\ frame' = [NoFrame EXCEPT !.op = "animate_theme"]
  /\ pc' = "return"
  /\ UNCHANGED << max_reconnect_attempts, lamp_vars, transport_vars, session,
                  obs, res, now, enc, conc >>

\* the wait before the next iteration measured from start_time, not from
\* command_start_time
anim_after_brightness_from_start ==
  /\ pc = "return"
  /\ anim.active
  /\ anim.stage = "brightness"
  /\ anim.elapsed < anim.duration
  /\ LET command_elapsed_time == now - anim.start_time
         wait_time == Max(0, color_min_wait - command_elapsed_time)
     IN  IF wait_time > 0
         THEN now' = now + wait_time /\ pc' = "sleep_color"
         ELSE now' = now /\ pc' = "anim_loop"
  /\ anim' = [anim EXCEPT !.stage = "loop"]
  /\ UNCHANGED << max_reconnect_attempts, lamp_vars, transport_vars, session,
                  frame, obs, res, enc, conc >>

\* set_brightness returned with progress < 1.0: the wait up to color_min_wait
anim_after_brightness ==
  /\ pc = "return"
  /\ anim.active
  /\ anim.stage = "brightness"
  /\ anim.elapsed < anim.duration
  /\ LET command_elapsed_time == now - anim.command_start_time
         wait_time == Max(0, color_min_wait - command_elapsed_time)
     IN  IF wait_time > 0
         THEN now' = now + wait_time /\ pc' = "sleep_color"
         ELSE now' = now /\ pc' = "anim_loop"
  /\ anim' = [anim EXCEPT !.stage = "loop"]
  /\ UNCHANGED << max_reconnect_attempts, lamp_vars, transport_vars, session,
                  frame, obs, res, enc, conc >>

\* asyncio.sleep(wait_time) is over: next iteration
anim_wake_color ==
  /\ pc = "sleep_color"
  /\ pc' = "anim_loop"
  /\ UNCHANGED << max_reconnect_attempts, lamp_vars, transport_vars, session,
                  frame, obs, res, anim, now, enc, conc >>

(***************************************************************************)
(* The lamp client under a caller of its control operations.               *)
(***************************************************************************)
Lamp ==
  \/ turn_on \/ turn_off \/ set_brightness \/ set_color \/ set_theme
  \/ set_pixel \/ apply_pixel_mode
  \/ ensure_connected \/ ensure_retry \/ ensure_exhausted
  \/ connect_scan_found \/ connect_scan_not_found
  \/ connect_open_fails \/ connect_open
  \/ send_command \/ write_acknowledged \/ write_fails
  \/ op_return \/ raise_to_caller \/ raise_in_body
  \/ aenter \/ aenter_raises \/ body_done \/ aexit \/ close_done \/ close_fails
  \/ link_loss

Next == Lamp

Spec == Init /\ [][Next]_vars

(***************************************************************************)
(* The same client under a caller that also runs animate_theme, on a lamp  *)
(* constructed with max_reconnect_attempts in 0..AnimAttempts.             *)
(***************************************************************************)
InitAnim == Init /\ max_reconnect_attempts <= AnimAttempts

Animation ==
  \/ animate_theme \/ anim_iteration \/ anim_zero_division
  \/ anim_after_theme \/ anim_wake_brightness
  \/ anim_break \/ anim_after_brightness \/ anim_wake_color

NextAnim == Lamp \/ Animation

SpecAnim == InitAnim /\ [][NextAnim]_vars

(***************************************************************************)
(* The encoders on their own: an input is drawn, then validate(),          *)
(* to_command_string() or the encoding of set_brightness is applied to it. *)
(***************************************************************************)
\* colors with one, two and three digit channels
PaletteColor(i) ==
  CASE i = 1 -> RGBColor(255, 0, 0)
    [] i = 2 -> RGBColor(0, 0, 255)
    [] OTHER -> RGBColor((37 * i) % 256, (101 * i) % 256, (i * i) % 256)

ColorList(k, shift) == [ i \in 1..k |-> PaletteColor(i + shift) ]

EncThemeInputs ==
  { ThemeConfig(name, numeric_param, ColorList(k, shift)) :
      name \in ThemeName, numeric_param \in {None, Some(20)},
      k \in 0..MaxColors, shift \in {0, 1} }

EncBrightnessInputs == (0 - BrightSlack)..(120 + BrightSlack)

InitEnc ==
  /\ InitLamp
  /\ conc = NoConc
  /\ max_reconnect_attempts = 0
  /\ \/ \E cfg \in EncThemeInputs, kind \in {"validate", "to_command_string"} :
          enc = [NoEnc EXCEPT !.pc = "in", !.kind = kind, !.cfg = cfg]
     \/ \E brightness \in EncBrightnessInputs :
          enc = [NoEnc EXCEPT !.pc = "in", !.kind = "set_brightness",
                              !.brightness = brightness]

EncUnchanged ==
  UNCHANGED << max_reconnect_attempts, lamp_vars, transport_vars, pc, session,
               frame, obs, res, anim, now, conc >>

enc_validate ==
  /\ enc.pc = "in"
  /\ enc.kind = "validate"
  /\ enc' = [enc EXCEPT !.pc = "out", !.out = Raise(validate(enc.cfg))]
  /\ EncUnchanged

enc_to_command_string ==
  /\ enc.pc = "in"
  /\ enc.kind = "to_command_string"
  /\ enc' = [enc EXCEPT !.pc = "out", !.out = to_command_string(enc.cfg)]
  /\ EncUnchanged

enc_set_brightness ==
  /\ enc.pc = "in"
  /\ enc.kind = "set_brightness"
  /\ enc' = [enc EXCEPT !.pc = "out", !.out = set_brightness_cmd(enc.brightness)]
  /\ EncUnchanged

NextEnc == enc_validate \/ enc_to_command_string \/ enc_set_brightness

SpecEnc == InitEnc /\ [][NextEnc]_vars

(***************************************************************************)
(* Two tasks calling turn_on() on one MoonsideLamp.  A coroutine runs      *)
(* without interruption from one await to the next, so a task is idle or   *)
(* suspended in BleakScanner.discover() ("scan"), in client.connect()      *)
(* ("connect") or in write_gatt_char ("write"), and each action is the     *)
(* code from one of these awaits to the next.                              *)
(***************************************************************************)
InitConc ==
  /\ InitLamp
  /\ enc = NoEnc
  /\ conc = [NoConc EXCEPT !.pc = [t \in Tasks |-> "idle"]]

ConcUnchanged ==
  UNCHANGED << max_reconnect_attempts, pc, session, frame, obs, res, anim,
               now, enc >>

\* the operation of task t returns or raises: the await of its caller ends
ConcEnd(c, t) ==
  [c EXCEPT !.pc[t] = "idle", !.attempts[t] = 0, !.opening[t] = 0,
            !.called[t] = FALSE]

\* the loop of _ensure_connected starting _connect() without awaiting it:
\* the operation is over for its caller while the attempt goes on
ConcLoop_detached(c, t, attempts) ==
  IF MayRetry(attempts, max_reconnect_attempts)
  THEN [c EXCEPT !.pc[t] = "scan", !.attempts[t] = attempts, !.called[t] = FALSE]
  ELSE ConcEnd(c, t)

\* the test of the loop of _ensure_connected after `attempts` failures:
\* _connect() is awaited and suspends in the scan, or RuntimeError is raised
ConcLoop(c, t, attempts) ==
  IF MayRetry(attempts, max_reconnect_attempts)
  THEN [c EXCEPT !.pc[t] = "scan", !.attempts[t] = attempts]
  ELSE ConcEnd(c, t)

\* _send_command after _ensure_connected returned: the second check of the
\* connection, on the client cl, with the links `up`; then the write
ConcSend(c, t, cl, up) ==
  IF cl # 0 /\ cl \in up THEN [c EXCEPT !.pc[t] = "write"] ELSE ConcEnd(c, t)

\* task t calls turn_on(); the call overlaps if the other task is in a call
conc_call(t) ==
  /\ conc.pc[t] = "idle"
  /\ LET c == [conc EXCEPT
                 !.called[t] = TRUE,
                 !.overlapped = @ \/ \E u \in Tasks \ {t} : conc.called[u]]
     IN  conc' = IF ClientConnected
                 THEN ConcSend(c, t, client, is_connected)
                 ELSE ConcLoop(c, t, 0)
  /\ UNCHANGED << lamp_vars, transport_vars >>
  /\ ConcUnchanged

\* the scan of task t returns with the device: self.client is replaced and
\* its connect() awaited
conc_scan_found(t) ==
  /\ conc.pc[t] = "scan"
  /\ made < MaxSessions
  /\ made' = made + 1
  /\ client' = made + 1
  /\ conc' = [conc EXCEPT !.pc[t] = "connect", !.opening[t] = made + 1]
  /\ UNCHANGED << rx_characteristic, is_connected >>
  /\ ConcUnchanged

\* the scan of task t returns without the device
conc_scan_not_found(t) ==
  /\ conc.pc[t] = "scan"
  /\ conc' = ConcLoop(conc, t, conc.attempts[t] + 1)
  /\ UNCHANGED << lamp_vars, transport_vars >>
  /\ ConcUnchanged

\* the connect() task t awaits raises
conc_connect_fails(t) ==
  /\ conc.pc[t] = "connect"
  /\ conc' = ConcLoop([conc EXCEPT !.opening[t] = 0], t, conc.attempts[t] + 1)
  /\ UNCHANGED << lamp_vars, transport_vars >>
  /\ ConcUnchanged

\* the connect() task t awaits returns.  The characteristics are then read
\* from self.client, which the other task may have replaced by a client that
\* is not connected: reading its services raises or gives nothing,
\* depending on the transport library.
conc_connect(t) ==
  /\ conc.pc[t] = "connect"
  /\ is_connected' = is_connected \cup {conc.opening[t]}
  /\ \E services \in {"listed", "unlisted", "error"} :
       /\ services = "listed" => client \in is_connected'
       /\ services = "error" => client \notin is_connected'
       /\ rx_characteristic' =
            IF services = "error" THEN rx_characteristic
            ELSE ResolveRx(rx_characteristic, client, services = "listed")
       /\ LET c == [conc EXCEPT !.opening[t] = 0]
          IN  conc' = IF services = "error" \/ rx_characteristic' = 0
                      THEN ConcLoop(c, t, conc.attempts[t] + 1)
                      ELSE ConcSend(c, t, client, is_connected')
  /\ UNCHANGED << client, made >>
  /\ ConcUnchanged

\* the write of task t is acknowledged or fails
conc_write(t) ==
  /\ conc.pc[t] = "write"
  /\ conc' = ConcEnd(conc, t)
  /\ UNCHANGED << lamp_vars, transport_vars >>
  /\ ConcUnchanged

NextConc ==
  \/ \E t \in Tasks :
       \/ conc_call(t)
       \/ conc_scan_found(t) \/ conc_scan_not_found(t)
       \/ conc_connect_fails(t) \/ conc_connect(t)
       \/ conc_write(t)
  \/ link_loss

SpecConc == InitConc /\ [][NextConc]_vars

(***************************************************************************)
(* Properties of the managed session and of the connection, under Spec.    *)
(***************************************************************************)
ControlOps ==
  { "turn_on", "turn_off", "set_brightness", "set_color", "set_theme",
    "set_pixel", "apply_pixel_mode" }

\* C1: in a managed session whose body raised from a control operation,
\* _disconnect() has been invoked exactly once by the time the `async with`
\* statement hands an exception to its caller (never twice before that), and
\* it does hand one over: __aexit__ suppresses nothing.  The exception is
\* the one of the body, or the one client.disconnect() raised on top of it.
C1_ScopedSessionDisconnects ==
  /\ res.disconnects <= 1
  /\ (res.body_err # "none" /\ res.sess # "running") =>
       (res.disconnects = 1 /\ res.sess \in {res.body_err, "CloseError"})

\* a session whose body raised WriteError has ended with that error after
\* one _disconnect()
C1_Witness ==
  /\ session = "none"
  /\ res.body_err = "WriteError"
  /\ res.sess = "WriteError"
  /\ res.disconnects = 1
  /\ client = 0

\* C2: a control operation that finds the link dead when it starts writes
\* only after a _connect() of its own returned (a scan and a connect
\* attempt came first), and once one has returned the command is written
\* exactly once, on the client that _connect() made.
C2_LinkLossReconnectsThenWrites ==
  (frame.op \in ControlOps /\ ~obs.invalid /\ ~obs.alive0) =>
    /\ obs.writes <= 1
    /\ obs.connects <= max_reconnect_attempts
    /\ obs.writes > 0 => (obs.reconnected /\ obs.scans >= 1 /\ obs.connects >= 1)
    /\ (obs.reconnected /\ pc \in {"write", "return", "raise"}) =>
         /\ obs.writes = 1
         /\ obs.wcmd = frame.cmd
         /\ obs.wclient = client
         /\ obs.wclient > obs.made0

\* an operation that started on a dead link has returned after its second
\* connect attempt succeeded and its command was written once
C2_Witness ==
  /\ pc = "return"
  /\ frame.op = "turn_on"
  /\ obs.client0 # 0
  /\ ~obs.alive0
  /\ frame.attempts = 1
  /\ obs.connects = 2
  /\ obs.writes = 1
  /\ obs.wclient = client
  /\ obs.wcmd = "LEDON"

\* C3: _ensure_connected() on an instance that is not connected makes at
\* most max_reconnect_attempts calls of _connect(); when none of them
\* returns it has made exactly that many and the operation fails with the
\* reconnect-exhausted error, without a write.
C3_BoundedReconnect ==
  (frame.op \in ControlOps) =>
    /\ obs.connects <= max_reconnect_attempts
    /\ frame.attempts <= obs.connects
    /\ (pc = "raise" /\ frame.err = "ReconnectExhausted") =>
         /\ obs.connects = max_reconnect_attempts
         /\ frame.attempts = max_reconnect_attempts
         /\ ~obs.reconnected
         /\ obs.writes = 0
    /\ (pc = "raise" /\ ~obs.invalid /\ ~obs.alive0 /\ ~obs.reconnected) =>
         frame.err = "ReconnectExhausted"

\* with max_reconnect_attempts = 2, two attempts failed and the operation
\* raises the reconnect-exhausted error
C3_Witness ==
  /\ pc = "raise"
  /\ frame.err = "ReconnectExhausted"
  /\ max_reconnect_attempts >= 2
  /\ obs.connects = max_reconnect_attempts
  /\ obs.scans = max_reconnect_attempts

\* C5: _disconnect() never propagates an error and always leaves the client
\* reference cleared, also when client.disconnect() fails.
C5_DisconnectBestEffort ==
  [][(pc = "close" /\ pc' # "close") =>
       (client' = 0 /\ res'.sess # "CloseError")]_vars

\* C10: every write is issued with a handle that was resolved on the
\* session of the client it is issued on: never an unset handle, never the
\* handle of an earlier session.
C10_WriteOnResolvedHandle ==
  obs.writes > 0 => (obs.whandle # 0 /\ obs.whandle = obs.wclient)

\* _connect() has just raised: inside _ensure_connected the except clause has
\* counted the attempt, inside __aenter__ the error is on its way out
ConnectJustFailed ==
  \/ pc = "loop" /\ frame.attempts > 0
  \/ pc = "raise" /\ frame.op = "aenter"

\* C11: after a _connect() that failed (device not found, transport error,
\* characteristic not found) the instance is not Connected: it does not hold
\* a client whose link is up, so _ensure_connected() would not be a no-op.
C11_ConnectedOnlyAfterFullConnect ==
  ConnectJustFailed => ~ClientConnected

\* the step in which `await self.client.connect()` returns
SessionOpened ==
  pc = "connect" /\ client \notin is_connected /\ client \in is_connected'

\* C12: every _connect() whose newly opened session lists no "Nordic UART RX"
\* characteristic (the handle it ends with is not one of that session) fails
\* with characteristic-not-found, on the first connect and on every
\* reconnect: it never returns to _send_command or to the body.
C12_MissingCharacteristicFails ==
  [][(SessionOpened /\ rx_characteristic' # client) =>
       (pc' = "loop" \/ (pc' = "raise" /\ frame'.err = "CharacteristicNotFound"))]_vars

\* C13: whenever the instance is Disconnected (no client reference, as after
\* every _disconnect()), rx_characteristic is cleared.
C13_HandleClearedWhenDisconnected ==
  client = 0 => rx_characteristic = 0

\* C14: when a managed session ends, whether its body completed, its body
\* raised or its entry connect failed, the instance is Disconnected and no
\* transport session is left open.
C14_SessionEndsDisconnected ==
  [][(session # "none" /\ session' = "none") =>
       (client' = 0 /\ is_connected' = {})]_vars

\* C15: every session that is still open is the one self.client refers to;
\* no BleakClient is replaced while its link is up.
C15_NoOrphanedSessions ==
  \A c \in is_connected : c = client

\* C16: a control operation issues at most one write.  While the write is
\* pending nothing else is done; when it fails the call raises the write
\* error and ends there: no further write, no scan, no connect, no new
\* client, and the lamp's fields stay as they were.
C16_NoWriteRetry ==
  [][(frame.op \in ControlOps /\ obs.writes > 0) =>
       /\ obs.writes = 1
       /\ pc \in {"write", "return", "raise"}
       /\ pc = "write" =>
            /\ pc' \in {"write", "return", "raise"}
            /\ pc' = "raise" => frame'.err = "WriteError"
            /\ obs' = obs
            /\ made' = made
            /\ lamp_vars' = lamp_vars
       /\ pc = "raise" =>
            /\ frame.err = "WriteError"
            /\ pc' \in {"idle", "aexit"}
            /\ obs' = NoObs
            /\ transport_vars' = transport_vars
            /\ lamp_vars' = lamp_vars]_vars

\* set_color has reconnected, written once, and the write has failed
C16_Witness ==
  /\ pc = "raise"
  /\ frame.op = "set_color"
  /\ frame.err = "WriteError"
  /\ obs.reconnected
  /\ obs.writes = 1
  /\ obs.scans = 1

\* C17: a control operation that starts on an instance that is Connected
\* with its link up goes through _ensure_connected() without a scan and
\* without a connect attempt, and with client and rx_characteristic as they
\* were when it started.
C17_EnsureConnectedNoOp ==
  (frame.op \in ControlOps /\ obs.alive0) =>
    /\ pc \in {"ensure", "send", "write", "return", "raise"}
    /\ obs.scans = 0
    /\ obs.connects = 0
    /\ ~obs.reconnected
    /\ made = obs.made0
    /\ client = obs.client0
    /\ rx_characteristic = obs.rx0

\* turn_off on a live connection is past _ensure_connected and about to write
C17_Witness ==
  /\ pc = "send"
  /\ frame.op = "turn_off"
  /\ obs.alive0
  /\ client # 0
  /\ client \in is_connected
  /\ rx_characteristic = client

(***************************************************************************)
(* Properties of validation and of animate_theme, under SpecAnim.          *)
(***************************************************************************)
ValidationErrors ==
  { "OutOfRange", "ShapeMismatch", "MissingParameter", "UnexpectedParameter",
    "LengthMismatch" }

\* C4: a call whose input is invalid (brightness outside 0..120 in
\* set_brightness or set_pixel, a ThemeConfig of the wrong shape in
\* set_theme, color lists of different length in animate_theme) raises a
\* validation error at once: it has scanned, connected and written nothing
\* and client and rx_characteristic are as they were when it was called.
C4_ValidationPrecedesTransmission ==
  obs.invalid =>
    /\ pc = "raise"
    /\ frame.err \in ValidationErrors
    /\ obs.scans = 0 /\ obs.connects = 0 /\ obs.writes = 0
    /\ client = obs.client0
    /\ rx_characteristic = obs.rx0
    /\ made = obs.made0

\* set_pixel with brightness 121 raises on a connected lamp
C4_Witness ==
  /\ obs.invalid
  /\ pc = "raise"
  /\ frame.op = "set_pixel"
  /\ frame.err = "OutOfRange"
  /\ obs.alive0

\* the call of animate_theme is over: it returned or an exception leaves it
AnimEnds ==
  \/ pc = "return" /\ frame.op = "animate_theme"
  \/ pc = "raise" /\ (anim.active \/ frame.op = "animate_theme")

\* the commands of the end values
EndTheme(a) == to_command_string(ThemeConfig("GRADIENT1", None, a.end_colors)).cmd

EndBrightness(a) == set_brightness_cmd(a.end_brightness).cmd

\* C6: animate_theme with duration = 0, two colors in each list and end
\* points of brightness in 0..120, on a connected lamp, returns after
\* exactly one theme command and one brightness command, both of the end
\* values.
C6_ZeroDurationSendsEndValues ==
  ( /\ AnimEnds
    /\ anim.duration = 0
    /\ Len(anim.start_colors) = 2 /\ Len(anim.end_colors) = 2
    /\ ~BadBrightness(anim.start_brightness)
    /\ ~BadBrightness(anim.end_brightness)
    /\ obs.alive0 ) =>
      /\ pc = "return"
      /\ anim.themes = 1 /\ anim.last_theme = EndTheme(anim)
      /\ anim.brights = 1 /\ anim.last_bright = EndBrightness(anim)

\* C18: animate_theme with duration > 0 and two colors in each list (the
\* curves all reach 1 at progress 1).  Each iteration sends one theme
\* command and then one brightness command; the loop goes round again only
\* after an iteration computed with progress < 1.0, and an iteration can be
\* computed only color_min_wait after the one before, so there are at most
\* duration / color_min_wait + 2 of them; when the call returns, its last
\* iteration was computed with progress 1.0 and the last theme command and
\* the last brightness command are those of end_colors and end_brightness.
C18_AnimationEndsOnEndValues ==
  ( /\ anim.stage # "none"
    /\ anim.duration > 0
    /\ Len(anim.start_colors) = 2 /\ Len(anim.end_colors) = 2 ) =>
      /\ anim.brights <= anim.themes
      /\ anim.themes <= anim.brights + 1
      /\ anim.themes <= anim.duration \div color_min_wait + 2
      /\ anim.stage \in {"loop", "done"} => anim.themes = anim.brights
      /\ anim.stage = "theme" => anim.themes = anim.brights + obs.writes
      /\ anim.stage = "brightness" => anim.themes = anim.brights + 1 - obs.writes
      /\ (anim.stage = "loop" /\ anim.themes > 0) => anim.elapsed < anim.duration
      /\ (pc = "return" /\ frame.op = "animate_theme") =>
           /\ anim.stage = "done"
           /\ anim.elapsed = anim.duration
           /\ anim.themes >= 1
           /\ anim.last_theme = EndTheme(anim)
           /\ anim.last_bright = EndBrightness(anim)

\* an animation over 160 s with the curves of main() has returned after
\* three iterations, the last of them with the end values
C18_Witness ==
  /\ pc = "return"
  /\ frame.op = "animate_theme"
  /\ anim.duration = 160
  /\ anim.color_curve = "easeInQuad"
  /\ anim.themes = 3
  /\ anim.brights = 3
  /\ anim.last_theme = "THEME.GRADIENT1.255,165,0,128,0,128,"
  /\ anim.last_bright = "BRIGH120"

\* C19: in a run of animate_theme, a call of set_theme comes at least
\* color_min_wait (150 s) after the call of set_theme before it, and a call
\* of set_brightness at least brightness_min_wait (10 s) after the call of
\* set_brightness before it, whether the commands take no time, 20 s or
\* 160 s.
C19_Cadence ==
  anim.stage # "none" =>
    /\ anim.theme_gap = NoTime \/ anim.theme_gap >= color_min_wait
    /\ anim.bright_gap = NoTime \/ anim.bright_gap >= brightness_min_wait

\* a second iteration has begun later than color_min_wait after the first,
\* because the commands of the first took longer, and its brightness
\* command has been called
C19_Witness ==
  /\ anim.active
  /\ anim.stage = "brightness"
  /\ anim.theme_gap > color_min_wait
  /\ anim.bright_gap >= brightness_min_wait
  /\ anim.bright_at >= anim.theme_at + brightness_min_wait

(***************************************************************************)
(* Properties of concurrent callers, under SpecConc.                       *)
(***************************************************************************)
\* the tasks with a connect attempt in progress: scanning, or connecting and
\* about to resolve the characteristic
Connecting == { t \in Tasks : conc.pc[t] \in {"scan", "connect"} }

\* C20: when two control operations are in flight on the same instance, at
\* no time are two connect attempts in progress on it.
C20_ConnectsSerialized ==
  (\A t \in Tasks : conc.called[t]) => Cardinality(Connecting) <= 1

\* C20, amended: the instance takes no lock; its connect attempts are
\* serialized by the caller alone.  As long as every operation has been
\* called with no other operation in flight, at most one connect attempt is
\* in progress, and it belongs to the operation in flight: an attempt never
\* outlives the operation that made it.
C20_SequentialCallsSerialized ==
  ~conc.overlapped =>
    /\ Cardinality(Connecting) <= 1
    /\ \A t \in Connecting : conc.called[t]

\* after an operation of task 1 that opened a session, task 2, called when
\* task 1 had returned, is connecting a second client
C20_Witness ==
  /\ ~conc.overlapped
  /\ conc.pc[1] = "idle"
  /\ conc.pc[2] = "connect"
  /\ conc.opening[2] = 2
  /\ made = 2

(***************************************************************************)
(* Properties of the encoders, under SpecEnc.                              *)
(***************************************************************************)
EncDone(kind) == enc.pc = "out" /\ enc.kind = kind

\* C7: for every ThemeName and every ThemeConfig, validate() finds the
\* theme's catalog entry; it fails with the shape mismatch when the number
\* of colors differs from the entry's num_colors (TWINKLE1 needs 2), else
\* with missing / unexpected parameter when the presence of numeric_param
\* differs from has_numeric, and succeeds otherwise.
C7_ValidateShape ==
  /\ ThemeName \subseteq DOMAIN THEME_METADATA
  /\ THEME_METADATA["TWINKLE1"].num_colors = 2
  /\ EncDone("validate") =>
       LET cfg == enc.cfg
           shape == THEME_METADATA[cfg.name]
           given == cfg.numeric_param # None
       IN  /\ cfg.name \in ThemeName
           /\ enc.out.err # "KeyError"
           /\ (Len(cfg.colors) # shape.num_colors) => enc.out.err = "ShapeMismatch"
           /\ (Len(cfg.colors) = shape.num_colors /\ given /\ ~shape.has_numeric)
                => enc.out.err = "UnexpectedParameter"
           /\ (Len(cfg.colors) = shape.num_colors /\ ~given /\ shape.has_numeric)
                => enc.out.err = "MissingParameter"
           /\ (Len(cfg.colors) = shape.num_colors /\ given = shape.has_numeric)
                => enc.out.err = "none"

\* validate() has refused TWINKLE1 with one color
C7_Witness ==
  /\ EncDone("validate")
  /\ enc.cfg.name = "TWINKLE1"
  /\ Len(enc.cfg.colors) = 1
  /\ enc.cfg.numeric_param = None
  /\ enc.out.err = "ShapeMismatch"

\* the decimal digits of a channel value 0..255, without leading zeros
ChannelText(n) ==
  IF n >= 100 THEN Digit(n \div 100) \o Digit((n \div 10) % 10) \o Digit(n % 10)
  ELSE IF n >= 10 THEN Digit(n \div 10) \o Digit(n % 10)
  ELSE Digit(n)

RECURSIVE TripletsText(_, _)
\* "R,G,B," of the first k colors, in list order
TripletsText(colors, k) ==
  IF k = 0 THEN ""
  ELSE TripletsText(colors, k - 1) \o ChannelText(colors[k].r) \o ","
         \o ChannelText(colors[k].g) \o "," \o ChannelText(colors[k].b) \o ","

\* the last character is a comma and the one before it is not
OneTrailingComma(s) ==
  /\ Len(s) >= 2
  /\ SubSeq(s, Len(s), Len(s)) = ","
  /\ SubSeq(s, Len(s) - 1, Len(s) - 1) # ","

\* C8: for every ThemeConfig that passes validate(), to_command_string()
\* gives "THEME." + name + "." + the decimal numeric_param if present + the
\* "R,G,B," triplet of each color in list order, ending with exactly one
\* comma (TWINKLE1 with (255,0,0),(0,0,255) gives
\* "THEME.TWINKLE1.255,0,0,0,0,255,"); for a config that fails validate()
\* it raises and produces no string.
C8_ThemeCommandString ==
  EncDone("to_command_string") =>
    LET cfg == enc.cfg IN
    IF ~BadTheme(cfg)
    THEN /\ enc.out.err = "none"
         /\ enc.out.cmd =
              "THEME." \o cfg.name \o "."
                \o (IF cfg.numeric_param # None
                    THEN ChannelText(cfg.numeric_param[1]) ELSE "")
                \o TripletsText(cfg.colors, Len(cfg.colors))
         /\ OneTrailingComma(enc.out.cmd)
         /\ (cfg = ThemeConfig("TWINKLE1", None,
                               << RGBColor(255, 0, 0), RGBColor(0, 0, 255) >>))
              => enc.out.cmd = "THEME.TWINKLE1.255,0,0,0,0,255,"
    ELSE enc.out.err # "none" /\ enc.out.cmd = ""

\* to_command_string() has built the command of the TWINKLE1 example
C8_Witness ==
  /\ EncDone("to_command_string")
  /\ enc.cfg.name = "TWINKLE1"
  /\ enc.out.cmd = "THEME.TWINKLE1.255,0,0,0,0,255,"

\* C9: for every b in 0..120 the command of set_brightness is "BRIGH" and b
\* as exactly three digits, zero-padded; for every other b it fails with
\* the out-of-range error and has no command.
C9_BrightnessEncoding ==
  EncDone("set_brightness") =>
    LET b == enc.brightness IN
    IF 0 <= b /\ b <= 120
    THEN /\ enc.out.err = "none"
         /\ Len(enc.out.cmd) = 8
         /\ enc.out.cmd = "BRIGH" \o Digit(b \div 100) \o Digit((b \div 10) % 10)
                            \o Digit(b % 10)
    ELSE enc.out = Raise("OutOfRange")

\* set_brightness has encoded a one-digit brightness
C9_Witness ==
  /\ EncDone("set_brightness")
  /\ enc.brightness = 7
  /\ enc.out.cmd = "BRIGH007"

====
